---------------------------- MODULE Spec2Model ----------------------------
(***************************************************************************)
(* Model of the App component of src/src/main.jsx (lines 54-342): the      *)
(* milestone collection, the entry form, the editing cursor, the set of    *)
(* hidden timelines and the browser-local store, with one action per event *)
(* handler.  The values derived on every render (timelines,                *)
(* timelineColors, chartData) are operators over the state.                *)
(*                                                                         *)
(* JavaScript values: strings are TLA+ strings; `undefined` is the         *)
(* sentinel Undefined; `null` (editingId) is Null; a uuid is a positive    *)
(* integer, the n-th value uuidv4() returned.  A React state update and    *)
(* the render and effects it triggers are one step: clicks are discrete    *)
(* events, flushed before the next event is delivered.                     *)
(***************************************************************************)
EXTENDS Integers, Sequences, FiniteSets, TLC

VARIABLES
    milestones,   \* useState(milestones), line 55: sequence of records
    form,         \* useState(form), line 60
    editingId,    \* useState(editingId), line 68
    hidden,       \* useState(hidden), line 69: a Set of timeline keys
    storage,      \* localStorage['milestones'], lines 56 and 72
    nextUuid,     \* how many uuids uuidv4() has returned, plus one
    returned,     \* what the last handler returned to its caller
    lastOp,       \* history: which handler ran last, and what it did
    lastId        \* history: the record id the last handler was about

vars ==
    <<milestones, form, editingId, hidden, storage, nextUuid, returned,
      lastOp, lastId>>

----------------------------------------------------------------------------
\* Bounds of the model.

\* uuidv4() is called at most MaxUuid times in a behaviour of Spec.
MaxUuid == 3

\* uuidv4() is called at most PaletteMaxUuid times in a behaviour of
\* SpecPalette, which starts from five saved records (uuids 1..5).
PaletteMaxUuid == 6

\* uuidv4() is called at most WideMaxUuid times in a behaviour of SpecWide.
WideMaxUuid == 2

----------------------------------------------------------------------------
\* JavaScript values.

Undefined == "<undefined>"
Null == 0

\* !v for the values a form field holds: '' and undefined are falsy.
Falsy(v) == v = "" \/ v = Undefined

\* Timeline keys the user types in Spec.  "9" is a canonical array index
\* (an integer-like property name), "Work" is not.
Keys == {"Work", "9"}

\* The value of a property name that is a canonical array index, -1 for a
\* name that is not one (ECMAScript: CanonicalNumericIndexString).
ArrayIndexOf(k) ==
    CASE k = "9"  -> 9
      [] k = "10" -> 10
      [] OTHER    -> -1

IsArrayIndex(k) == ArrayIndexOf(k) >= 0

----------------------------------------------------------------------------
\* Sequence helpers.

Range(s) == {s[i] : i \in DOMAIN s}

\* The first position of x in s, 0 when x does not occur.
IndexOf(s, x) ==
    IF \E i \in DOMAIN s : s[i] = x
    THEN CHOOSE i \in DOMAIN s : s[i] = x /\ \A j \in 1..(i - 1) : s[j] # x
    ELSE 0

----------------------------------------------------------------------------
\* The palette, lines 42-52.

colorFamilies ==
    << <<"#E3F2FD", "#42A5F5", "#1E88E5">>,
       <<"#E8F5E9", "#66BB6A", "#43A047">>,
       <<"#F3E5F5", "#AB47BC", "#8E24AA">>,
       <<"#FFF8E1", "#FFB300", "#FB8C00">>,
       <<"#E0F2F1", "#26A69A", "#00897B">> >>

FallbackFamily == <<"#ccc", "#888", "#555">>

\* Lines 50-52 with the index clamped to the palette instead of wrapped.
getColorFamilyClamped(index) ==
    colorFamilies[IF index < Len(colorFamilies) THEN index + 1
                  ELSE Len(colorFamilies)]

\* getColorFamily(index), index zero-based; colorFamilies is 1-based here.
getColorFamily(index) == colorFamilies[(index % Len(colorFamilies)) + 1]

----------------------------------------------------------------------------
\* Timeline Index and colours, lines 75-85.

RECURSIVE SetInsertionOrder(_)
\* Array.from(new Set(a)): a Set iterates in insertion order and ignores
\* the insertion of a value it already holds.
SetInsertionOrder(a) ==
    IF a = <<>> THEN <<>>
    ELSE LET n == Len(a)
             front == SetInsertionOrder(SubSeq(a, 1, n - 1))
         IN  IF a[n] \in Range(front) THEN front ELSE Append(front, a[n])

Reverse(s) == [i \in DOMAIN s |-> s[Len(s) + 1 - i]]

\* Lines 75-77 with each timeline kept at its last occurrence instead of
\* its first.
timelinesOfLastSeen(ms) ==
    Reverse(SetInsertionOrder(Reverse([i \in DOMAIN ms |-> ms[i].timeline])))

\* timelines, lines 75-77.
timelinesOf(ms) == SetInsertionOrder([i \in DOMAIN ms |-> ms[i].timeline])

timelines == timelinesOf(milestones)

\* timelineColors: the object built by timelines.forEach((t, idx) => ...),
\* as the function from its keys to their values.  idx is zero-based.
timelineColorsOf(tl) ==
    [t \in Range(tl) |-> getColorFamily(IndexOf(tl, t) - 1)]

timelineColors == timelineColorsOf(timelines)

\* timelineColors[t] || ['#ccc', '#888', '#555'], lines 149 and 238.
ColorOrFallback(tc, t) == IF t \in DOMAIN tc THEN tc[t] ELSE FallbackFamily

----------------------------------------------------------------------------
\* Dates, line 153.

\* parseISO(s).getTime() in days since 1970-01-01 (the code's unit is the
\* millisecond; 32-bit model integers hold days).  getTime() of an Invalid
\* Date is NaN; every date of the table is after 1970, so NaN is -1 here.
NaN == 0 - 1

ParseISOTime(s) ==
    CASE s = "2010-06-01" -> 14761
      [] s = "2010-07-01" -> 14791
      [] s = "2015-01-01" -> 16436
      [] OTHER            -> NaN

----------------------------------------------------------------------------
\* Chart data, lines 141-180.

\* Property names every object literal inherits from Object.prototype.  On
\* the fresh `grouped = {}` of line 142, grouped[k] is truthy for each of
\* them (a function, or the prototype object), and it has no push method.
InheritedNames ==
    {"constructor", "toString", "toLocaleString", "valueOf",
     "hasOwnProperty", "isPrototypeOf", "propertyIsEnumerable", "__proto__"}

\* Lines 143-146: for a timeline with an inherited name the test of line
\* 144 finds a value, no array is created, and line 145 calls
\* grouped[m.timeline].push, which is undefined: a TypeError is thrown.
GroupingThrows(ms) == \E i \in DOMAIN ms : ms[i].timeline \in InheritedNames

\* grouped[t]: the milestones of timeline t, in collection order (lines
\* 142-146).
GroupOf(ms, t) == LET InGroup(m) == m.timeline = t IN SelectSeq(ms, InGroup)

RECURSIVE AscendingIndices(_)
\* The array-index keys of S in ascending numeric order.
AscendingIndices(S) ==
    IF S = {} THEN <<>>
    ELSE LET k == CHOOSE x \in S : \A y \in S : ArrayIndexOf(x) <= ArrayIndexOf(y)
         IN  <<k>> \o AscendingIndices(S \ {k})

\* The order in which Object.entries (OrdinaryOwnPropertyKeys) lists the
\* string keys of an object whose properties were created in the order
\* `created`: array indices first, ascending, then the other keys in
\* creation order.
OwnPropertyKeys(created) ==
    LET NotIndex(k) == ~IsArrayIndex(k)
    IN  AscendingIndices({k \in Range(created) : IsArrayIndex(k)})
        \o SelectSeq(created, NotIndex)

\* The keys of `grouped` in creation order: a key is created when the first
\* milestone of its timeline is visited (line 144).
GroupedCreated(ms) == SetInsertionOrder([i \in DOMAIN ms |-> ms[i].timeline])

\* One entry of `datasets`, lines 148-172.
Dataset(ms, tc, hid, t) ==
    LET grp == GroupOf(ms, t)
        fam == ColorOrFallback(tc, t)
    IN  [label           |-> t,
         data            |-> [j \in DOMAIN grp |->
                                [x     |-> <<ParseISOTime(grp[j].start),
                                             ParseISOTime(grp[j].end)>>,
                                 y     |-> t,
                                 title |-> grp[j].title,
                                 id    |-> grp[j].id]],
         backgroundColor |-> fam[2],
         borderColor     |-> fam[3],
         hidden          |-> t \in hid]

\* Line 148 with the hidden timelines left out of the series.
DatasetsOfVisible(ms, tc, hid) ==
    LET Shown(t) == t \notin hid
        keys == SelectSeq(OwnPropertyKeys(GroupedCreated(ms)), Shown)
    IN  [i \in DOMAIN keys |-> Dataset(ms, tc, hid, keys[i])]

\* Object.entries(grouped).map(...), line 148.
DatasetsOf(ms, tc, hid) ==
    LET keys == OwnPropertyKeys(GroupedCreated(ms))
    IN  [i \in DOMAIN keys |-> Dataset(ms, tc, hid, keys[i])]

\* The useMemo callback of lines 141-180, from the timelines and
\* timelineColors of the same render: what it throws, or with thrown "none"
\* the object it returns (lines 175-178).
chartDataOf(ms, hid) ==
    LET tl == timelinesOf(ms)
        tc == timelineColorsOf(tl)
    IN  IF GroupingThrows(ms)
        THEN [thrown |-> "TypeError"]
        ELSE [thrown |-> "none", labels |-> tl,
              datasets |-> DatasetsOf(ms, tc, hid)]

chartData == chartDataOf(milestones, hidden)

\* An error thrown while App renders is caught by no error boundary (lines
\* 10-14): React unmounts the tree, so no effect runs and no handler can be
\* invoked afterwards.
RenderThrows(ms) == GroupingThrows(ms)

AppMounted == ~RenderThrows(milestones)

----------------------------------------------------------------------------
\* Persistence, lines 55-58 and 71-73.

\* The store's item 'milestones': <<>> while the key is absent (getItem
\* returns null), <<text>> once a text is stored.
NoItem == <<>>

\* JSON.stringify(milestones): a property whose value is undefined is left
\* out of the object's text.
StringifyOne(m) ==
    IF m.notes = Undefined
    THEN [id |-> m.id, title |-> m.title, timeline |-> m.timeline,
          start |-> m.start, end |-> m.end]
    ELSE [id |-> m.id, title |-> m.title, timeline |-> m.timeline,
          start |-> m.start, end |-> m.end, notes |-> m.notes]

Stringify(ms) == [i \in DOMAIN ms |-> StringifyOne(ms[i])]

\* JSON.parse: reading a property the text does not have gives undefined.
ParseOne(o) ==
    [id |-> o.id, title |-> o.title, timeline |-> o.timeline,
     start |-> o.start, end |-> o.end,
     notes |-> IF "notes" \in DOMAIN o THEN o.notes ELSE Undefined]

Parse(text) == [i \in DOMAIN text |-> ParseOne(text[i])]

\* useState initialiser, lines 55-58.
LoadMilestones(store) == IF store = NoItem THEN <<>> ELSE Parse(store[1])

\* useEffect, lines 71-73: runs after the mount and after every render in
\* which `milestones` is a new array.
Persisted(ms) == <<Stringify(ms)>>

\* Variant of StoreAfterRender for an effect declared with an empty
\* dependency list: it runs on mount only.
StoreAfterRenderOnMountOnly(ms, store) == store

\* The store after setMilestones and the render it causes: the effect runs
\* only when that render completes.
StoreAfterRender(ms, store) ==
    IF RenderThrows(ms) THEN store ELSE Persisted(ms)

----------------------------------------------------------------------------
\* The form, lines 60-66, 107, 125 and 314.

FieldNames == {"title", "timeline", "start", "end", "notes"}

\* Lines 60-66 and 107: every field '', notes included.
ClearedForm ==
    [title |-> "", timeline |-> "", start |-> "", end |-> "", notes |-> ""]

\* Lines 125 and 314: setForm({ title, timeline, start, end }) has no notes
\* property, so form.notes reads undefined afterwards.
ClearedFormNoNotes ==
    [title |-> "", timeline |-> "", start |-> "", end |-> "", notes |-> Undefined]

\* Line 92 without its last test.
FormIncompleteNoEnd(f) ==
    Falsy(f.title) \/ Falsy(f.timeline) \/ Falsy(f.start)

\* Line 92.
FormIncomplete(f) ==
    Falsy(f.title) \/ Falsy(f.timeline) \/ Falsy(f.start) \/ Falsy(f.end)

----------------------------------------------------------------------------
\* State updaters of the handlers.

\* Lines 101-106 with the new record put first.
SubmitUpdaterPrepend(prev, eid, newMilestone) ==
    IF eid # Null
    THEN [i \in DOMAIN prev |-> IF prev[i].id = eid THEN newMilestone ELSE prev[i]]
    ELSE <<newMilestone>> \o prev

\* Lines 101-106 with an update that removes the record and appends its
\* replacement.
SubmitUpdaterMoveToEnd(prev, eid, newMilestone) ==
    LET Others(m) == m.id # eid
    IN  IF eid # Null
        THEN Append(SelectSeq(prev, Others), newMilestone)
        ELSE Append(prev, newMilestone)

\* Lines 101-106 with an update whose map replaces every record.
SubmitUpdaterReplaceAll(prev, eid, newMilestone) ==
    IF eid # Null
    THEN [i \in DOMAIN prev |-> newMilestone]
    ELSE Append(prev, newMilestone)

\* The updater passed to setMilestones by handleSubmit, lines 101-106.
SubmitUpdater(prev, eid, newMilestone) ==
    IF eid # Null
    THEN [i \in DOMAIN prev |-> IF prev[i].id = eid THEN newMilestone ELSE prev[i]]
    ELSE Append(prev, newMilestone)

\* Line 122 with the test inverted.
DeleteUpdaterInverted(prev, id) ==
    LET Keep(m) == m.id = id IN SelectSeq(prev, Keep)

\* The updater passed to setMilestones by handleDelete, line 122.
DeleteUpdater(prev, id) == LET Keep(m) == m.id # id IN SelectSeq(prev, Keep)

\* Lines 130-138 without the branch that removes the key.
ToggleUpdaterAddOnly(prev, t) == prev \cup {t}

\* The updater passed to setHidden by toggleTimeline, lines 130-138.
ToggleUpdater(prev, t) == IF t \in prev THEN prev \ {t} ELSE prev \cup {t}

\* Lines 93-100.  uuidv4() is called only when editingId is falsy.
NewMilestone(f, eid, uuid) ==
    [id       |-> IF eid # Null THEN eid ELSE uuid,
     title    |-> f.title,
     timeline |-> f.timeline,
     start    |-> f.start,
     end      |-> f.end,
     notes    |-> f.notes]

----------------------------------------------------------------------------
\* Construction: the first render and its effects, lines 55-73.

Mount(store, issued) ==
    /\ milestones = LoadMilestones(store)
    /\ form = ClearedForm
    /\ editingId = Null
    /\ hidden = {}
    /\ storage = Persisted(LoadMilestones(store))
    /\ nextUuid = issued + 1
    /\ returned = Undefined
    /\ lastOp = "mount"
    /\ lastId = Null

\* The store is empty when the application is first opened.
Init == Mount(NoItem, 0)

----------------------------------------------------------------------------
\* Handlers.

\* handleFormChange, lines 87-89, for the input called `name`.
HandleFormChange(name, value) ==
    /\ AppMounted
    /\ form' = [form EXCEPT ![name] = value]
    /\ returned' = Undefined
    /\ lastOp' = "change"
    /\ lastId' = Null
    /\ UNCHANGED <<milestones, editingId, hidden, storage, nextUuid>>

\* handleSubmit, lines 91-109, with at most maxUuid uuids to hand out.
HandleSubmit(maxUuid) ==
    /\ AppMounted
    /\ IF FormIncomplete(form)
       THEN /\ returned' = Undefined
            /\ lastOp' = "rejected"
            /\ lastId' = editingId
            /\ UNCHANGED <<milestones, form, editingId, hidden, storage, nextUuid>>
       ELSE /\ editingId = Null => nextUuid <= maxUuid
            /\ milestones' = SubmitUpdater(milestones, editingId,
                                           NewMilestone(form, editingId, nextUuid))
            /\ storage' = StoreAfterRender(milestones', storage)
            /\ nextUuid' = IF editingId = Null THEN nextUuid + 1 ELSE nextUuid
            /\ form' = ClearedForm
            /\ editingId' = Null
            /\ returned' = Undefined
            /\ lastOp' = IF editingId = Null THEN "add" ELSE "update"
            /\ lastId' = IF editingId = Null THEN nextUuid ELSE editingId
            /\ UNCHANGED hidden

\* handleEdit, lines 111-119, from the Edit button of list entry i.
HandleEdit(i) ==
    /\ AppMounted
    /\ i \in DOMAIN milestones
    /\ form' = [title    |-> milestones[i].title,
                timeline |-> milestones[i].timeline,
                start    |-> milestones[i].start,
                end      |-> milestones[i].end,
                notes    |-> milestones[i].notes]
    /\ editingId' = milestones[i].id
    /\ returned' = Undefined
    /\ lastOp' = "edit"
    /\ lastId' = milestones[i].id
    /\ UNCHANGED <<milestones, hidden, storage, nextUuid>>

\* handleDelete that also drops from the hidden set the keys of timelines
\* that have no milestone left.
HandleDeletePruning(id) ==
    /\ AppMounted
    /\ id \in 1..(nextUuid - 1)
    /\ milestones' = DeleteUpdater(milestones, id)
    /\ storage' = StoreAfterRender(milestones', storage)
    /\ IF editingId = id
       THEN editingId' = Null /\ form' = ClearedFormNoNotes
       ELSE UNCHANGED <<editingId, form>>
    /\ returned' = Undefined
    /\ lastOp' = IF Len(milestones') < Len(milestones)
                 THEN "delete" ELSE "delete nothing"
    /\ lastId' = id
    /\ hidden' = hidden \cap Range(timelinesOf(milestones'))
    /\ UNCHANGED nextUuid

\* handleDelete without lines 123-126: the form and the editing cursor are
\* left as they were.
HandleDeleteKeepsEditing(id) ==
    /\ AppMounted
    /\ id \in 1..(nextUuid - 1)
    /\ milestones' = DeleteUpdater(milestones, id)
    /\ storage' = StoreAfterRender(milestones', storage)
    /\ returned' = Undefined
    /\ lastOp' = IF Len(milestones') < Len(milestones)
                 THEN "delete" ELSE "delete nothing"
    /\ lastId' = id
    /\ UNCHANGED <<editingId, form, hidden, nextUuid>>

\* handleDelete, lines 121-127.  The Delete buttons pass the id of a listed
\* record; the handler is also run here with the id of a record that was
\* deleted before.
HandleDelete(id) ==
    /\ AppMounted
    /\ id \in 1..(nextUuid - 1)
    /\ milestones' = DeleteUpdater(milestones, id)
    /\ storage' = StoreAfterRender(milestones', storage)
    /\ IF editingId = id
       THEN editingId' = Null /\ form' = ClearedFormNoNotes
       ELSE UNCHANGED <<editingId, form>>
    /\ returned' = Undefined
    /\ lastOp' = IF Len(milestones') < Len(milestones)
                 THEN "delete" ELSE "delete nothing"
    /\ lastId' = id
    /\ UNCHANGED <<hidden, nextUuid>>

\* The Cancel button, lines 310-320, rendered while editingId is truthy.
Cancel ==
    /\ AppMounted
    /\ editingId # Null
    /\ editingId' = Null
    /\ form' = ClearedFormNoNotes
    /\ returned' = Undefined
    /\ lastOp' = "cancel"
    /\ lastId' = Null
    /\ UNCHANGED <<milestones, hidden, storage, nextUuid>>

\* toggleTimeline, lines 129-139, from the chip of timeline t (chips are
\* rendered for the timelines of the index, lines 237-258).
ToggleTimeline(t) ==
    /\ AppMounted
    /\ t \in Range(timelines)
    /\ hidden' = ToggleUpdater(hidden, t)
    /\ returned' = Undefined
    /\ lastOp' = "toggle"
    /\ lastId' = Null
    /\ UNCHANGED <<milestones, form, editingId, storage, nextUuid>>

----------------------------------------------------------------------------
\* What the user types into the inputs in Spec.

Typed(name) ==
    CASE name = "title"    -> {"", "Graduate"}
      [] name = "timeline" -> {""} \cup Keys
      [] name = "start"    -> {"", "2010-06-01"}
      [] name = "end"      -> {"", "2015-01-01"}
      [] name = "notes"    -> {""}

Next ==
    \/ \E name \in FieldNames : \E value \in Typed(name) :
           HandleFormChange(name, value)
    \/ HandleSubmit(MaxUuid)
    \/ \E i \in 1..MaxUuid : HandleEdit(i)
    \/ \E id \in 1..MaxUuid : HandleDelete(id)
    \/ Cancel
    \/ \E t \in Keys : ToggleTimeline(t)

Spec == Init /\ [][Next]_vars

----------------------------------------------------------------------------
\* A session that starts from a collection saved by an earlier session:
\* five records of five timelines, so that a sixth timeline can be added.

SavedTimelines == <<"Education", "Career", "Health", "Family", "Travel">>

SavedMilestones ==
    [i \in DOMAIN SavedTimelines |->
        [id |-> i, title |-> "Graduate", timeline |-> SavedTimelines[i],
         start |-> "2010-06-01", end |-> "2015-01-01", notes |-> ""]]

InitPalette == Mount(Persisted(SavedMilestones), Len(SavedMilestones))

\* What the user types into the inputs in SpecPalette.
PaletteTyped(name) ==
    CASE name = "title"    -> {"Graduate"}
      [] name = "timeline" -> {"Work"}
      [] name = "start"    -> {"2010-06-01"}
      [] name = "end"      -> {"2015-01-01"}
      [] name = "notes"    -> {""}

NextPalette ==
    \/ \E name \in FieldNames : \E value \in PaletteTyped(name) :
           HandleFormChange(name, value)
    \/ HandleSubmit(PaletteMaxUuid)
    \/ \E i \in 1..PaletteMaxUuid : HandleEdit(i)
    \/ \E id \in 1..PaletteMaxUuid : HandleDelete(id)
    \/ Cancel

SpecPalette == InitPalette /\ [][NextPalette]_vars

----------------------------------------------------------------------------
\* A session in which the user also types a timeline with an inherited
\* property name, a start date that is no date, and dates out of order.

WideTyped(name) ==
    CASE name = "title"    -> {"Graduate"}
      [] name = "timeline" -> {"Work", "constructor"}
      [] name = "start"    -> {"2010-07-01", "soon"}
      [] name = "end"      -> {"2010-06-01"}
      [] name = "notes"    -> {""}

NextWide ==
    \/ \E name \in FieldNames : \E value \in WideTyped(name) :
           HandleFormChange(name, value)
    \/ HandleSubmit(WideMaxUuid)
    \/ \E i \in 1..WideMaxUuid : HandleEdit(i)
    \/ \E id \in 1..WideMaxUuid : HandleDelete(id)
    \/ Cancel
    \/ \E t \in {"Work", "constructor"} : ToggleTimeline(t)

SpecWide == Init /\ [][NextWide]_vars

----------------------------------------------------------------------------
\* Vocabulary of the properties.

RequiredFields == {"title", "timeline", "start", "end"}

AnyRequiredEmpty(f) == \E n \in RequiredFields : f[n] = ""

IdsOf(ms) == {ms[i].id : i \in DOMAIN ms}

\* The positions of the records of ms with the given id.
PositionsOf(ms, id) == {i \in DOMAIN ms : ms[i].id = id}

\* s without its element at position p.
WithoutPosition(s, p) ==
    [j \in 1..(Len(s) - 1) |-> IF j < p THEN s[j] ELSE s[j + 1]]

SeriesLabels ==
    [i \in DOMAIN chartData.datasets |-> chartData.datasets[i].label]

----------------------------------------------------------------------------
\* C1: the chart's series are in Timeline Index order: the sequence of the
\* series' labels equals the Timeline Index, for every collection and every
\* choice of timeline keys, integer-like keys included.
C1_SeriesInIndexOrder == SeriesLabels = timelines

C3_AddAppendsOneFreshRecord ==
    [][(HandleSubmit(MaxUuid) /\ ~AnyRequiredEmpty(form) /\ editingId = Null)
         => /\ Len(milestones') = Len(milestones) + 1
            /\ SubSeq(milestones', 1, Len(milestones)) = milestones
            /\ LET new == milestones'[Len(milestones')]
               IN  /\ new.title = form.title
                   /\ new.timeline = form.timeline
                   /\ new.start = form.start
                   /\ new.end = form.end
                   /\ new.notes = form.notes
                   /\ new.id \notin IdsOf(milestones)]_vars

\* C3 witness: an add to a non-empty list, after an earlier record was
\* deleted.
C3_Witness ==
    /\ lastOp = "add"
    /\ Len(milestones) = 2
    /\ nextUuid = 4
    /\ milestones[2].id = lastId

\* C4: a successful update of the record with id i replaces it where it is:
\* same length, the record at i's old position has id i and the submitted
\* fields, every other position holds the record it held.
C4_UpdateReplacesInPlace ==
    [][(HandleSubmit(MaxUuid) /\ ~AnyRequiredEmpty(form) /\ editingId # Null)
         => \A p \in PositionsOf(milestones, editingId) :
              /\ Len(milestones') = Len(milestones)
              /\ milestones'[p] =
                   [id |-> editingId, title |-> form.title,
                    timeline |-> form.timeline, start |-> form.start,
                    end |-> form.end, notes |-> form.notes]
              /\ \A j \in DOMAIN milestones :
                   j # p => milestones'[j] = milestones[j]]_vars

\* C4 witness: the first of three records was updated and now has a
\* timeline that no other record has.
C4_Witness ==
    /\ lastOp = "update"
    /\ Len(milestones) = 3
    /\ milestones[1].id = lastId
    /\ milestones[1].timeline = "9"
    /\ milestones[2].timeline = "Work"
    /\ milestones[3].timeline = "Work"

\* C5: delete(id) removes exactly the record with that id and keeps the
\* others in order; when no record has the id it returns normally and the
\* list is unchanged.
C5_DeleteRemovesExactlyThatRecord ==
    [][\A id \in 1..(nextUuid - 1) :
         (lastId' = id /\ HandleDelete(id))
           => /\ returned' = Undefined
              /\ PositionsOf(milestones, id) = {} => milestones' = milestones
              /\ \A p \in PositionsOf(milestones, id) :
                   milestones' = WithoutPosition(milestones, p)]_vars

\* C5 witness: a delete of an id that no record has, with records stored.
C5_Witness ==
    /\ lastOp = "delete nothing"
    /\ lastId \notin IdsOf(milestones)
    /\ Len(milestones) = 2

----------------------------------------------------------------------------
\* C7: the Timeline Index has no duplicates, holds exactly the timeline
\* values of the collection, and orders them by first occurrence in the
\* collection (first-seen order, not sorted).

\* The position of the first record of timeline t.
FirstRecordOf(t) ==
    CHOOSE i \in DOMAIN milestones :
        /\ milestones[i].timeline = t
        /\ \A j \in 1..(i - 1) : milestones[j].timeline # t

C7_TimelineIndexFirstSeen ==
    LET index == timelines
        first == [i \in DOMAIN index |-> FirstRecordOf(index[i])]
    IN  /\ \A i, j \in DOMAIN index : index[i] = index[j] => i = j
        /\ Range(index) = {milestones[i].timeline : i \in DOMAIN milestones}
        /\ \A i, j \in DOMAIN index : i < j <=> first[i] < first[j]

\* C7 witness: "Work" is seen first and again after "9"; sorted order would
\* put "9" first.
C7_Witness ==
    /\ Len(milestones) = 3
    /\ milestones[1].timeline = "Work"
    /\ milestones[2].timeline = "9"
    /\ milestones[3].timeline = "Work"
    /\ timelines = <<"Work", "9">>

\* C8: the timeline at zero-based position k of the Timeline Index is
\* assigned palette entry k mod 5, whatever its name.
C8_ColorIsPositionModFive ==
    LET index == timelines
        colors == timelineColorsOf(index)
    IN  \A k \in 0..(Len(index) - 1) :
            /\ index[k + 1] \in DOMAIN colors
            /\ colors[index[k + 1]] = colorFamilies[(k % 5) + 1]

\* C8 witness: six distinct timelines, the sixth with the colours of the
\* first.
C8_Witness ==
    /\ Len(timelines) = 6
    /\ timelines[1] = "Education"
    /\ timelines[6] = "Work"
    /\ timelineColors["Education"] = colorFamilies[1]
    /\ timelineColors["Work"] = colorFamilies[1]

\* C9: one toggle of key t flips the membership of t and of no other key,
\* and a second toggle of t right after it gives back the original hidden
\* set.
C9_ToggleTwiceRestores ==
    [][\A t \in Keys :
         (hidden' # hidden /\ ToggleTimeline(t))
           => /\ (t \in hidden') <=> (t \notin hidden)
              /\ hidden' \ {t} = hidden \ {t}
              /\ ToggleUpdater(hidden', t) = hidden]_vars

\* C9 witness: a toggle has just shown the only hidden timeline again.
C9_Witness ==
    /\ lastOp = "toggle"
    /\ hidden = {}
    /\ Len(timelines) = 2

\* C10: a toggle leaves the collection, the stored text and the Timeline
\* Index as they were; the chart's category list is the Timeline Index; a
\* hidden timeline of the index keeps its category and its series; every
\* series' hidden flag is membership of its timeline in the hidden set.
C10_ToggleLeavesRepositoryAndIndex ==
    /\ [][\A t \in Keys :
            (hidden' # hidden /\ ToggleTimeline(t))
              => /\ milestones' = milestones
                 /\ storage' = storage
                 /\ timelinesOf(milestones') = timelines
                 /\ t \in Range(timelines)]_vars
    /\ [](LET chart == chartData
          IN  /\ chart.labels = timelines
              /\ \A t \in hidden \cap Range(timelines) :
                   /\ t \in Range(chart.labels)
                   /\ \E i \in DOMAIN chart.datasets :
                        chart.datasets[i].label = t
              /\ \A i \in DOMAIN chart.datasets :
                   chart.datasets[i].hidden
                     <=> (chart.datasets[i].label \in hidden))

\* C10 witness: after a toggle every timeline of the index is hidden, and
\* each still has its category and its series.
C10_Witness ==
    /\ lastOp = "toggle"
    /\ hidden = {"Work", "9"}
    /\ Range(chartData.labels) = {"Work", "9"}
    /\ Len(chartData.datasets) = 2

\* C11: in every state, hence after every add, update and delete and its
\* persistence effect, the text stored under the key is the serialization of
\* the current milestone list, and reading it back gives that list.
C11_StoreHoldsCurrentCollection ==
    /\ storage = <<Stringify(milestones)>>
    /\ LoadMilestones(storage) = milestones

\* C11 witness: a delete has just left one record, saved since it was
\* updated from a form without notes; the stored object has no notes
\* property.
C11_Witness ==
    /\ lastOp = "delete"
    /\ Len(milestones) = 1
    /\ milestones[1].notes = Undefined
    /\ storage = <<Stringify(milestones)>>
    /\ "notes" \notin DOMAIN storage[1][1]

\* The milestone's start or end does not parse as a calendar date.
HasUnparseableDate(m) ==
    ParseISOTime(m.start) = NaN \/ ParseISOTime(m.end) = NaN

\* C12: when a milestone's start or end does not parse as a calendar date,
\* building the chart data fails with InvalidDateError; no point that is
\* emitted has a range with a value that is not a timestamp.
C12_UnparseableDateFailsTheTransform ==
    LET chart == chartData
    IN  /\ (\E i \in DOMAIN milestones : HasUnparseableDate(milestones[i]))
              => chart.thrown = "InvalidDateError"
        /\ chart.thrown = "none"
              => \A s \in DOMAIN chart.datasets :
                   \A j \in DOMAIN chart.datasets[s].data :
                       /\ chart.datasets[s].data[j].x[1] # NaN
                       /\ chart.datasets[s].data[j].x[2] # NaN

\* C13: the chart data is built, and each milestone is exactly one point of
\* it, in the series labelled with the milestone's timeline, with its title
\* and id; the points of a series are in the order of the collection; no
\* series is empty.
C13_EveryMilestoneIsOnePoint ==
    LET chart == chartData
    IN  /\ chart.thrown = "none"
        /\ \A i \in DOMAIN milestones :
              LET at == {<<s, j>> \in (DOMAIN chart.datasets)
                                      \X (DOMAIN milestones) :
                           /\ j \in DOMAIN chart.datasets[s].data
                           /\ chart.datasets[s].data[j].id = milestones[i].id}
              IN  /\ Cardinality(at) = 1
                  /\ \A p \in at :
                       /\ chart.datasets[p[1]].label = milestones[i].timeline
                       /\ chart.datasets[p[1]].data[p[2]].title
                            = milestones[i].title
        /\ \A s \in DOMAIN chart.datasets :
              LET data == chart.datasets[s].data
              IN  /\ data # <<>>
                  /\ \A j, k \in DOMAIN data :
                       j < k => \E a, b \in DOMAIN milestones :
                                   /\ a < b
                                   /\ milestones[a].id = data[j].id
                                   /\ milestones[b].id = data[k].id

\* C14: no two records of the collection have the same id.
C14_IdsAreUnique ==
    \A i, j \in DOMAIN milestones :
        milestones[i].id = milestones[j].id => i = j

\* C14 witness: two records are left after three adds and a delete, and
\* one of them has just been updated.
C14_Witness ==
    /\ lastOp = "update"
    /\ Len(milestones) = 2
    /\ IdsOf(milestones) = {2, 3}

\* C15: the hidden set changes only in a toggle step; add, update and delete
\* leave it as it was, so an add of the first milestone of a timeline whose
\* key is in the hidden set puts that timeline in the index with its key
\* still hidden.
C15_OnlyToggleChangesHidden ==
    [][/\ hidden' # hidden
          => /\ \E t \in Keys : ToggleTimeline(t)
             /\ ~HandleSubmit(MaxUuid)
             /\ \A id \in 1..MaxUuid : ~HandleDelete(id)
       /\ (/\ form.timeline \in hidden
           /\ form.timeline \notin Range(timelines)
           /\ ~AnyRequiredEmpty(form)
           /\ HandleSubmit(MaxUuid))
          => /\ form.timeline \in Range(timelinesOf(milestones'))
             /\ form.timeline \in hidden']_vars

\* C15 witness: the record just added is the only one of its timeline, and
\* the timeline's key is in the hidden set: the key stayed there while the
\* timeline was out of the index, and the new series is hidden.
C15_Witness ==
    /\ lastOp = "add"
    /\ \E i \in DOMAIN milestones :
          /\ milestones[i].id = lastId
          /\ milestones[i].timeline \in hidden
          /\ \A j \in DOMAIN milestones :
                milestones[j].timeline = milestones[i].timeline => j = i
          /\ \E s \in DOMAIN chartData.datasets :
                /\ chartData.datasets[s].label = milestones[i].timeline
                /\ chartData.datasets[s].hidden

\* C16: editingId is null or the id of exactly one record of the
\* collection, so the map of an update replaces exactly one record.
C16_EditingIdIsNullOrStored ==
    editingId = Null \/ Cardinality(PositionsOf(milestones, editingId)) = 1

\* C16 witness: while one record is being edited, another one has just been
\* deleted.
C16_Witness ==
    /\ lastOp = "delete"
    /\ editingId # Null
    /\ lastId # editingId
    /\ editingId \in IdsOf(milestones)

\* C17: after an add, the Timeline Index is the index before it, or that
\* index with the new record's timeline appended; every timeline of the old
\* index keeps its colour family.
C17_AddKeepsIndexPositions ==
    [][(HandleSubmit(MaxUuid) /\ ~AnyRequiredEmpty(form) /\ editingId = Null)
         => LET after == timelinesOf(milestones')
            IN  /\ \/ after = timelines
                   \/ after = Append(timelines, form.timeline)
                /\ \A t \in Range(timelines) :
                     timelineColorsOf(after)[t] = timelineColors[t]]_vars

\* C17 witness: the record just added is the first of its timeline, which
\* is now second in the index, after the timeline of two older records.
C17_Witness ==
    /\ lastOp = "add"
    /\ Len(milestones) = 3
    /\ Len(timelines) = 2
    /\ milestones[3].timeline = timelines[2]
    /\ milestones[1].timeline = timelines[1]
    /\ milestones[2].timeline = timelines[1]

====
